---- MODULE Spec2Model ----
(***************************************************************************)
(* Model of the DSP worker iio_reader.c (A-option, frame_type streams):     *)
(* command poll -> ADC refill -> convert -> LPF -> channel smoothing ->     *)
(* TimeAverage (decimation with carry-over) -> Stage3/5/7/8/9 frames.      *)
(*                                                                         *)
(* Numbers: C float/double values are modelled as integers; a cast to      *)
(* float is the identity on them and a floating division is RoundDiv.      *)
(* Buffers are flat, 0-based arrays indexed exactly as the C pointers are. *)
(***************************************************************************)
EXTENDS Integers, Sequences, FiniteSets, TLC

\* ---------------------------------------------------------------- bounds
MaxBlocks == 2          \* blocks refilled in one run
MaxBlockSamples == 3    \* largest block_samples argument
MaxFs == 3              \* largest sampling_frequency argument
MaxCmds == 1            \* command lines written to stdin in one run
MaxResend == 3          \* command lines written in a run of the command study
MaxFine == 60           \* largest |y1d| of the denominator study, in fine units
MaxLen == 4             \* longest signal of the smoothing study
MaxW == 4               \* largest window of the smoothing study (smallest: -1)
MaxCalls == 2           \* calls of moving_average_f32 in a run of the smoothing study

\* ------------------------------------------------------ program constants
n_ch == 8               \* channels used by the pipeline
n_sections == 2         \* biquad sections
MaxCoeffs == 10         \* capacity of each coefficient array
Tiny == 1               \* stands for 1e-12, the smallest divisor magnitude
LogBase == 10           \* P.k, base of the ratio logarithm
TinyFine == 10          \* 1e-12 again, in fine units of 1e-13
MinArgc == 8            \* argc needed: program name and seven arguments
ShortArgc == 5          \* an argc below MinArgc
SIGSEGV == 139          \* status of a process killed by an invalid memory access
NULL == <<>>            \* the null pointer: a buffer with no cell

FT_STAGE3_8CH == 1
FT_STAGE5_4CH == 2
FT_STAGE9_YT4 == 3
FT_STAGE7_Y2 == 4
FT_STAGE8_Y3 == 5

sensor_idx == <<0, 2, 4, 6>>
standard_idx == <<1, 3, 5, 7>>

\* Biquad sections {b0,b1,b2,a0,a1,a2}.  The source's coefficients are
\* rounded to integers, with the gain of section 0 normalised to 1.
sos == << <<1, 2, 1, 1, -2, 1>>, <<1, 2, 1, 1, -2, 1>> >>

\* ---------------------------------------------------------------- helpers
Abs(x) == IF x < 0 THEN -x ELSE x

Min(a, b) == IF a < b THEN a ELSE b

\* floating division a / b on the integer domain: truncation toward zero
RoundDiv(a, b) ==
    IF (a >= 0) = (b > 0) THEN Abs(a) \div Abs(b) ELSE -(Abs(a) \div Abs(b))

\* a zero-filled array of n cells (calloc, or `= {0}`)
Zeros(n) == [i \in 0..(n - 1) |-> 0]

\* the array f written out cell by cell: the same array, evaluated once and
\* not again on every read
Stored(f) == [f EXCEPT ![0] = f[0]]

RECURSIVE SumTo(_, _, _)
\* f(lo) + ... + f(hi - 1)
SumTo(f, lo, hi) == IF lo >= hi THEN 0 ELSE f[lo] + SumTo(f, lo + 1, hi)

\* ------------------------------------------------------------- polyval_f64
RECURSIVE polyval_from(_, _, _, _, _)
polyval_from(c, len, x, i, r) ==
    IF i >= len THEN r ELSE polyval_from(c, len, x, i + 1, r * x + c[i])

polyval_f64(c, len, x) == polyval_from(c, len, x, 0, 0)

\* ------------------------------------------------- command line parsing
\* Characters are one-character strings; a string is a sequence of them.
DigitVal == [c \in {"0", "1", "2", "3", "4", "5", "6", "7", "8", "9"} |->
               CASE c = "0" -> 0 [] c = "1" -> 1 [] c = "2" -> 2 [] c = "3" -> 3
                 [] c = "4" -> 4 [] c = "5" -> 5 [] c = "6" -> 6 [] c = "7" -> 7
                 [] c = "8" -> 8 [] c = "9" -> 9]

RECURSIVE SkipWs(_)
SkipWs(s) == IF s # <<>> /\ Head(s) = " " THEN SkipWs(Tail(s)) ELSE s

RECURSIVE DigitRun(_, _)
\* value of the longest prefix of decimal digits, most significant first
DigitRun(s, acc) ==
    IF s # <<>> /\ Head(s) \in DOMAIN DigitVal
    THEN DigitRun(Tail(s), acc * 10 + DigitVal[Head(s)])
    ELSE acc

\* atof: leading blanks, optional sign, digits; anything else ends the
\* number, and a token with no leading number converts to 0
atof(tok) ==
    LET t == SkipWs(tok) IN
    IF t = <<>> THEN 0
    ELSE IF Head(t) = "-" THEN -DigitRun(Tail(t), 0)
    ELSE IF Head(t) = "+" THEN DigitRun(Tail(t), 0)
    ELSE DigitRun(t, 0)

\* atoi / atoll of an argument: the same prefix rule, on integers
atoi(tok) == atof(tok)

RECURSIVE strtok_from(_, _, _)
\* strtok(buffer, ","): the maximal non-empty runs of non-comma characters
strtok_from(s, cur, acc) ==
    IF s = <<>> THEN (IF cur = <<>> THEN acc ELSE Append(acc, cur))
    ELSE IF Head(s) = ","
         THEN strtok_from(Tail(s), <<>>, IF cur = <<>> THEN acc ELSE Append(acc, cur))
         ELSE strtok_from(Tail(s), Append(cur, Head(s)), acc)

strtok(s) == strtok_from(s, <<>>, <<>>)

\* (variant: the loop does not test count < max_len)
parse_coeffs_NoCap(str, target_array, max_len) ==
    LET toks == strtok(str)
        count == Len(toks)
    IN [arr |-> [i \in DOMAIN target_array |->
                   IF i < count THEN atof(toks[i + 1]) ELSE target_array[i]],
        len |-> count]

\* (variant: the values are added to the cells instead of stored)
parse_coeffs_Accumulate(str, target_array, max_len) ==
    LET toks == strtok(str)
        count == Min(Len(toks), max_len)
    IN [arr |-> [i \in DOMAIN target_array |->
                   IF i < count THEN target_array[i] + atof(toks[i + 1])
                   ELSE target_array[i]],
        len |-> count]

\* parse_coeffs_from_string: fills target_array[0..count) and sets the live
\* length; cells at and after count keep what they held
parse_coeffs_from_string(str, target_array, max_len) ==
    LET toks == strtok(str)
        count == Min(Len(toks), max_len)
    IN [arr |-> [i \in DOMAIN target_array |->
                   IF i < count THEN atof(toks[i + 1]) ELSE target_array[i]],
        len |-> count]

\* (variant: a key with no value text counts as two conversions)
sscanf_BareKey(line) ==
    LET rest == SkipWs(line.tail) IN
    IF line.key = "" THEN [n |-> 0, key |-> "", values_str |-> <<>>]
    ELSE [n |-> 2, key |-> line.key, values_str |-> rest]

\* sscanf(line, "%63s %191[^\n]", key, values_str): a line is a key word
\* and the text after it up to the newline; the number of conversions is 2
\* only when some text follows the blanks after the key
sscanf(line) ==
    LET rest == SkipWs(line.tail) IN
    IF line.key = "" THEN [n |-> 0, key |-> "", values_str |-> <<>>]
    ELSE IF rest = <<>> THEN [n |-> 1, key |-> line.key, values_str |-> <<>>]
    ELSE [n |-> 2, key |-> line.key, values_str |-> rest]

\* (variant: the y2_coeffs branch fills y3_coeffs)
ApplyLine_WrongTarget(P, line) ==
    LET sc == sscanf(line) IN
    IF sc.n # 2 THEN P
    ELSE IF sc.key = "y1_den" THEN
        LET r == parse_coeffs_from_string(sc.values_str, P.y1_den, MaxCoeffs)
        IN [P EXCEPT !.y1_den = r.arr, !.y1_den_len = r.len]
    ELSE IF sc.key = "y2_coeffs" THEN
        LET r == parse_coeffs_from_string(sc.values_str, P.y3_coeffs, MaxCoeffs)
        IN [P EXCEPT !.y3_coeffs = r.arr, !.y2_coeffs_len = r.len]
    ELSE IF sc.key = "y3_coeffs" THEN
        LET r == parse_coeffs_from_string(sc.values_str, P.y3_coeffs, MaxCoeffs)
        IN [P EXCEPT !.y3_coeffs = r.arr, !.y3_coeffs_len = r.len]
    ELSE IF sc.key = "yt_coeffs" THEN
        LET r == parse_coeffs_from_string(sc.values_str, Zeros(2), 2)
        IN IF r.len = 2 THEN [P EXCEPT !.E = r.arr[0], !.F = r.arr[1]] ELSE P
    ELSE P

\* the body of check_and_process_stdin once fgets returned a line
ApplyLine(P, line) ==
    LET sc == sscanf(line) IN
    IF sc.n # 2 THEN P
    ELSE IF sc.key = "y1_den" THEN
        LET r == parse_coeffs_from_string(sc.values_str, P.y1_den, MaxCoeffs)
        IN [P EXCEPT !.y1_den = r.arr, !.y1_den_len = r.len]
    ELSE IF sc.key = "y2_coeffs" THEN
        LET r == parse_coeffs_from_string(sc.values_str, P.y2_coeffs, MaxCoeffs)
        IN [P EXCEPT !.y2_coeffs = r.arr, !.y2_coeffs_len = r.len]
    ELSE IF sc.key = "y3_coeffs" THEN
        LET r == parse_coeffs_from_string(sc.values_str, P.y3_coeffs, MaxCoeffs)
        IN [P EXCEPT !.y3_coeffs = r.arr, !.y3_coeffs_len = r.len]
    ELSE IF sc.key = "yt_coeffs" THEN
        LET r == parse_coeffs_from_string(sc.values_str, Zeros(2), 2)
        IN IF r.len = 2 THEN [P EXCEPT !.E = r.arr[0], !.F = r.arr[1]] ELSE P
    ELSE P

\* the line reaches a call of parse_coeffs_from_string (strdup, free)
CallsParse(line) ==
    /\ sscanf(line).n = 2
    /\ sscanf(line).key \in {"y1_den", "y2_coeffs", "y3_coeffs", "yt_coeffs"}

\* fgets on the non-blocking stdin: the first queued line, if any
check_and_process_stdin(P, in) ==
    IF in = <<>> THEN P ELSE ApplyLine(P, Head(in))

\* ------------------------------------------------------- moving_average_f32
\* (variant: every window is divided by N, the edges included)
moving_average_FixedDivisor(in, len, N) ==
    IF N <= 1 THEN [i \in 0..(len - 1) |-> in[i]]
    ELSE
      LET half == N \div 2
          ps == [i \in 0..len |-> SumTo(in, 0, i)]
      IN [i \in 0..(len - 1) |->
            LET start == IF i - half < 0 THEN 0 ELSE i - half
                end == IF i + (N - 1 - half) >= len THEN len - 1
                       ELSE i + (N - 1 - half)
            IN RoundDiv(ps[end + 1] - ps[start], N)]

\* Centered moving average over a prefix-sum scratchpad:
\* ps[i] = in[0] + ... + in[i-1], out[i] = (ps[end+1] - ps[start]) / cnt
\* (ps is the scratchpad the static psum points at)
moving_average_f32(in, len, N) ==
    IF N <= 1 THEN [i \in 0..(len - 1) |-> in[i]]
    ELSE
      LET half == N \div 2
          ps == [i \in 0..len |-> SumTo(in, 0, i)]
      IN [i \in 0..(len - 1) |->
            LET start == IF i - half < 0 THEN 0 ELSE i - half
                end == IF i + (N - 1 - half) >= len THEN len - 1
                       ELSE i + (N - 1 - half)
                cnt == end - start + 1
            IN RoundDiv(ps[end + 1] - ps[start], cnt)]

\* the static `cap` after a call with this len and N: the scratchpad is
\* freed and allocated again whenever it is shorter than len + 1
psum_cap(c, len, N) ==
    IF N <= 1 THEN c ELSE IF c < len + 1 THEN len + 1 ELSE c

\* the two loops of moving_average_f32 (scratchpad allocated, N > 1) over the
\* buffers themselves: the first loop reads all of `in` into the scratchpad,
\* the second writes out[i] from the scratchpad alone; alias: out is the
\* buffer in.  Result: the final out, and the sum and cnt of every i.
RECURSIVE prefix_loop(_, _, _, _, _, _, _)
prefix_loop(ps, buf, i, len, N, sum, cnt) ==
    IF i >= len THEN [out |-> buf, sum |-> sum, cnt |-> cnt]
    ELSE
      LET half == N \div 2
          start == IF i - half < 0 THEN 0 ELSE i - half
          end == IF i + (N - 1 - half) >= len THEN len - 1 ELSE i + (N - 1 - half)
          c == end - start + 1
          sm == ps[end + 1] - ps[start]
      IN prefix_loop(ps, [buf EXCEPT ![i] = RoundDiv(sm, c)], i + 1, len, N,
                     [sum EXCEPT ![i] = sm], [cnt EXCEPT ![i] = c])

prefix_windows(in, len, N, alias) ==
    prefix_loop([i \in 0..len |-> SumTo(in, 0, i)],
                IF alias THEN in ELSE [i \in 0..(len - 1) |-> 0],
                0, len, N, [i \in 0..(len - 1) |-> 0], [i \in 0..(len - 1) |-> 0])

\* ------------------------------- moving_average_f32 of the earlier worker
\* the loop of the direct summation over the buffers themselves: every
\* window is summed from `src`, which is the buffer being written when out
\* is the buffer in
RECURSIVE direct_loop(_, _, _, _, _, _, _, _)
direct_loop(in, buf, i, len, N, alias, sum, cnt) ==
    IF i >= len THEN [out |-> buf, sum |-> sum, cnt |-> cnt]
    ELSE
      LET half == N \div 2
          start == IF i - half < 0 THEN 0 ELSE i - half
          end == IF i + (N - 1 - half) >= len THEN len - 1 ELSE i + (N - 1 - half)
          c == end - start + 1
          src == IF alias THEN buf ELSE in
          acc == SumTo(src, start, start + c)
      IN direct_loop(in, [buf EXCEPT ![i] = RoundDiv(acc, c)], i + 1, len, N, alias,
                     [sum EXCEPT ![i] = acc], [cnt EXCEPT ![i] = c])

\* (variant: a trailing window i-N+1..i instead of a centered one)
moving_average_direct_Trailing(in, len, N, alias) ==
    IF N <= 1 THEN [out |-> [i \in 0..(len - 1) |-> in[i]], sum |-> <<>>, cnt |-> <<>>]
    ELSE
      [out |-> [i \in 0..(len - 1) |->
                  RoundDiv(SumTo(in, IF i - N + 1 < 0 THEN 0 ELSE i - N + 1, i + 1),
                           i + 1 - (IF i - N + 1 < 0 THEN 0 ELSE i - N + 1))],
       sum |-> [i \in 0..(len - 1) |->
                  SumTo(in, IF i - N + 1 < 0 THEN 0 ELSE i - N + 1, i + 1)],
       cnt |-> [i \in 0..(len - 1) |->
                  i + 1 - (IF i - N + 1 < 0 THEN 0 ELSE i - N + 1)]]

moving_average_direct(in, len, N, alias) ==
    IF N <= 1 THEN [out |-> [i \in 0..(len - 1) |-> in[i]], sum |-> <<>>, cnt |-> <<>>]
    ELSE direct_loop(in, IF alias THEN in ELSE [i \in 0..(len - 1) |-> 0],
                     0, len, N, alias,
                     [i \in 0..(len - 1) |-> 0], [i \in 0..(len - 1) |-> 0])

\* one call of moving_average_f32 with the statics cap = c and psum = p (cells
\* behind the pointer, 0 when NULL); ok: malloc returns memory.  A failed
\* malloc keeps cap = need and copies the input; a call that finds
\* cap >= need with psum NULL stores psum[0] through the null pointer.
moving_average_call(in, len, N, c, p, ok) ==
    LET need == len + 1
    IN IF N <= 1
       THEN [out |-> [i \in 0..(len - 1) |-> in[i]], cap |-> c, psum |-> p,
             status |-> "copy"]
       ELSE IF c < need /\ ~ok
       THEN [out |-> [i \in 0..(len - 1) |-> in[i]], cap |-> need, psum |-> 0,
             status |-> "nomem"]
       ELSE IF c < need
       THEN [out |-> moving_average_f32(in, len, N), cap |-> need, psum |-> need,
             status |-> "avg"]
       ELSE IF p = 0
       THEN [out |-> <<>>, cap |-> c, psum |-> p, status |-> "fault"]
       ELSE [out |-> moving_average_f32(in, len, N), cap |-> c, psum |-> p,
             status |-> "avg"]

\* --------------------------------------------------------- sos_df2t_inplace
RECURSIVE biquad_run(_, _, _, _, _, _)
\* the inner loop over the samples of one section
biquad_run(x, i, len, s, z1, z2) ==
    IF i >= len THEN [x |-> x, z1 |-> z1, z2 |-> z2]
    ELSE
      LET b0 == sos[s + 1][1]
          b1 == sos[s + 1][2]
          b2 == sos[s + 1][3]
          a1 == sos[s + 1][5]
          a2 == sos[s + 1][6]
          xi == x[i]
          yi == b0 * xi + z1
      IN biquad_run([x EXCEPT ![i] = yi], i + 1, len, s,
                    b1 * xi - a1 * yi + z2, b2 * xi - a2 * yi)

RECURSIVE sos_sections(_, _, _, _)
sos_sections(x, len, state, s) ==
    IF s >= n_sections THEN [x |-> x, state |-> state]
    ELSE
      LET r == biquad_run(x, 0, len, s, state[s * 2], state[s * 2 + 1])
      IN sos_sections(r.x, len,
                      [state EXCEPT ![s * 2] = r.z1, ![s * 2 + 1] = r.z2], s + 1)

\* x[len] filtered in place; state is the [n_sections*2] slice of one channel
sos_df2t_inplace(x, len, state) == sos_sections(x, len, state, 0)

\* ------------------------------------------------------------ log of ratio
RECURSIVE ILog(_, _)
\* whole part of log_base(x) for x >= 1
ILog(x, base) == IF x < base THEN 0 ELSE 1 + ILog(x \div base, base)

\* log(top / bot) * inv_log_b on the integer domain
log_ratio(top, bot, base) ==
    IF top >= bot THEN ILog(top \div bot, base) ELSE -ILog(bot \div top, base)

\* ------------------------------------------------------------- input sets
\* rows the ADC can deliver: one raw integer per input channel (9th = timestamp)
AdcRows == << <<100, 1, 20, 2, 300, 3, 4, 40, 7>>,
              <<-10, 50, 2, 200, 3, 3, 500, 5, 9>> >>

\* blocks the ADC can deliver: the two rows alternate, starting with either
AdcBlocks(len) == { [i \in 1..len |-> AdcRows[((i + ph) % 2) + 1]] : ph \in 0..1 }

\* per-channel scale attribute read at startup
ScaleTables == { [ci \in 0..8 |-> 1] }

\* what a malloc'ed, never written float may hold
Indeterminate == {0, 13}

\* values of the movavg_r and movavg_ch arguments
WindowArgs == { [movavg_r |-> 1, movavg_ch |-> 3], [movavg_r |-> 3, movavg_ch |-> 1],
                [movavg_r |-> atoi(<<"a", "b", "c">>), movavg_ch |-> atoi(<<"-", "1">>)] }

\* the startup allocation that returns NULL in this run, if any
AllocFailures == {"none", "scales", "lpf_state", "avg_tail", "ta_out",
                  "ma_ch_out", "Y2_out", "Y3_out"}

\* values of argc
Argcs == {ShortArgc, MinArgc}

\* descriptor returned by open_uart: -1 on failure
UartFds == {-1, 3}

Line(key, tail) == [key |-> key, tail |-> tail]

\* lines the broker can write to the worker's stdin
CommandLines ==
    { Line("y1_den", <<" ", "2">>),
      Line("y2_coeffs", <<" ", "2", ",", "0">>),
      Line("y2_coeffs", <<" ", "1", ",", "a", "b", "c", ",", "3">>),
      Line("y3_coeffs", <<" ", "1", ",", "-", "1">>),
      Line("yt_coeffs", <<" ", "3", ",", "1">>),
      Line("yt_coeffs", <<" ", "5">>),
      Line("yt_coeffs", <<" ", "4", ",", "2", ",", "9">>),
      Line("gain", <<" ", "5">>),
      Line("y1_den", <<" ">>),
      Line("y3_coeffs", <<" ", "1", ",", "2", ",", "3", ",", "4", ",", "5", ",", "6",
                          ",", "7", ",", "8", ",", "9", ",", "1", ",", "2">>) }

\* -------------------------------------------------------------------- state
VARIABLES
    pc,           \* position of main: start, poll, refill, emit3, stage59,
                  \* emit5, emit7, emit8, emit9, uart, cleanup, exited
    exit_status,  \* value returned by main, -1 while it runs
    argv,         \* block_samples, sampling_freq, target_rate_hz, movavg_r, movavg_ch
    n_in,         \* input channels found by the channel scan
    scales,       \* scales[ci]
    uart_fd,
    P,            \* SignalParams
    S,            \* ProcessingState: lpf_state, avg_tail, avg_tail_len
    decim,
    ma_ch_out,    \* [block_samples x n_in] smoothed samples, stride n_in
    ta_out,       \* [max_ta_out x n_ch]
    n_ta,
    S5_out, Y2_out, Y3_out, YT_out,   \* [max_ta_out x 4]
    stdin,        \* lines queued on the command channel
    sent,         \* lines written by the broker so far
    stdout,       \* frames written to the primary output
    uart,         \* trace lines written to the serial port
    h_rows,       \* history: planar (row, 0..7) view of every smoothed block
    h_nta,        \* history: n_ta of every processed block
    h_fblk,       \* history: block number of every frame of stdout
    h_refill_err, \* history: an iio_buffer_refill has failed
    argc,         \* number of command-line words, program name included
    alloc_fail,   \* the startup allocation that returns NULL, or "none"
    cap,          \* cells of the static psum scratchpad of moving_average_f32
    h_heap,       \* history: call sites of malloc/free reached inside the loop
    h_lines,      \* history: the lines fgets has returned, in order
    fine_y1d,     \* denominator study: a value of y1d, in fine units
    fine_div,     \* denominator study: the divisor used for it, 0 while not computed
    psum,         \* cells of the allocation the static psum points at, 0 when NULL
    ma_calls,     \* smoothing study: the calls of moving_average_f32 made so far
    h_raw,        \* history: every scaled input row (0..7) of the processed blocks
    released      \* what the code after the loop has released, in order

vars == <<pc, exit_status, argv, n_in, scales, uart_fd, P, S, decim, ma_ch_out,
          ta_out, n_ta, S5_out, Y2_out, Y3_out, YT_out, stdin, sent, stdout,
          uart, h_rows, h_nta, h_fblk, h_refill_err, argc, alloc_fail, cap,
          h_heap, h_lines, fine_y1d, fine_div, psum, ma_calls, h_raw, released>>

dspvars == <<S, ma_ch_out, ta_out, n_ta, h_rows, h_nta, h_raw>>
youtvars == <<S5_out, Y2_out, Y3_out, YT_out>>
cfgvars == <<argv, n_in, scales, uart_fd, decim, argc, alloc_fail>>
iovars == <<stdin, sent, stdout, uart, h_fblk>>
histvars == <<h_refill_err, fine_y1d, fine_div, ma_calls, released>>
heapvars == <<cap, h_heap, psum>>

block_samples == argv.block_samples
max_ta_out == block_samples \div decim + 2

\* SignalParams P = {0} followed by the assignments of main
InitParams(a) ==
    [sampling_frequency |-> a.sampling_freq,
     target_rate_hz |-> a.target_rate_hz,
     movavg_r |-> a.movavg_r,
     lpf_order |-> 4,
     alpha |-> 1, beta |-> 1, gamma |-> 1, k |-> LogBase, b |-> 0,
     y1_num |-> [Zeros(MaxCoeffs) EXCEPT ![0] = 1], y1_num_len |-> 2,
     y1_den |-> [Zeros(MaxCoeffs) EXCEPT ![5] = 1], y1_den_len |-> 6,
     y2_coeffs |-> [Zeros(MaxCoeffs) EXCEPT ![4] = 1], y2_coeffs_len |-> 6,
     y3_coeffs |-> [Zeros(MaxCoeffs) EXCEPT ![4] = 1], y3_coeffs_len |-> 6,
     E |-> 1, F |-> 0,
     r_abs |-> 1]

Init ==
    /\ pc = "start"
    /\ exit_status = -1
    /\ \E a \in [block_samples : 1..MaxBlockSamples,
                  sampling_freq : 1..MaxFs,
                  target_rate_hz : {1, MaxFs + 1}], w \in WindowArgs :
           argv = [block_samples |-> a.block_samples,
                   sampling_freq |-> a.sampling_freq,
                   target_rate_hz |-> a.target_rate_hz,
                   movavg_r |-> w.movavg_r,
                   movavg_ch |-> w.movavg_ch]
    /\ n_in \in 7..9
    /\ scales \in ScaleTables
    /\ uart_fd \in UartFds
    /\ P = InitParams(argv)
    /\ S = [lpf_state |-> <<>>, avg_tail |-> <<>>, avg_tail_len |-> 0]
    /\ decim = 0
    /\ ma_ch_out = <<>>
    /\ ta_out = <<>>
    /\ n_ta = 0
    /\ S5_out = <<>> /\ Y2_out = <<>> /\ Y3_out = <<>> /\ YT_out = <<>>
    /\ stdin = <<>>
    /\ sent = 0
    /\ stdout = <<>>
    /\ uart = <<>>
    /\ h_rows = <<>>
    /\ h_nta = <<>>
    /\ h_fblk = <<>>
    /\ h_refill_err = FALSE
    /\ argc \in Argcs
    /\ alloc_fail \in AllocFailures
    /\ cap = 0
    /\ h_heap = {}
    /\ h_lines = <<>>
    /\ fine_y1d = 0
    /\ fine_div = 0
    /\ psum = 0
    /\ ma_calls = <<>>
    /\ h_raw = <<>>
    /\ released = <<>>

\* ------------------------------------------------------------------ startup
\* work buffers whose pointers the check after the allocations tests
CheckedWorkBuffers == {"raw_f32", "lpf_f32", "chan_buf", "ta_combined", "ta_out",
                       "R_buf", "Ravg_buf", "S5_out", "YT_out"}

\* (variant: the count of input channels is not tested)
startup_status_NoChannelCheck ==
    IF argc < MinArgc THEN 1
    ELSE IF alloc_fail \in {"in_ch", "scales"} THEN 4
    ELSE IF alloc_fail = "lpf_state" THEN 7
    ELSE IF RoundDiv(P.sampling_frequency, P.target_rate_hz) <= 0 THEN 8
    ELSE IF alloc_fail = "avg_tail" THEN 9
    ELSE IF alloc_fail \in CheckedWorkBuffers THEN 10
    ELSE 0

\* the value main returns before its loop, in the order of its checks; 0 when
\* every check passes and the loop is entered
startup_status ==
    IF argc < MinArgc THEN 1
    ELSE IF alloc_fail \in {"in_ch", "scales"} THEN 4
    ELSE IF n_in < 8 THEN 5
    ELSE IF alloc_fail = "lpf_state" THEN 7
    ELSE IF RoundDiv(P.sampling_frequency, P.target_rate_hz) <= 0 THEN 8
    ELSE IF alloc_fail = "avg_tail" THEN 9
    ELSE IF alloc_fail \in CheckedWorkBuffers THEN 10
    ELSE 0

\* malloc/calloc of the buffer `name`: NULL when this allocation fails
Alloc(name, buf) == IF alloc_fail = name THEN NULL ELSE buf

\* main from the argument check to the entry of the main loop
Startup ==
    /\ pc = "start"
    /\ UNCHANGED <<histvars, heapvars, h_lines, argv, n_in, scales, uart_fd, argc,
                   alloc_fail, P, n_ta, iovars, h_rows, h_nta, h_raw>>
    /\ LET d == RoundDiv(P.sampling_frequency, P.target_rate_hz)
           mto == block_samples \div d + 2
       IN IF startup_status # 0 THEN
               /\ pc' = "exited" /\ exit_status' = startup_status
               /\ decim' = IF startup_status >= 8 THEN d ELSE decim
               /\ UNCHANGED <<S, ma_ch_out, ta_out, youtvars>>
          ELSE
               /\ pc' = "poll" /\ exit_status' = exit_status
               /\ decim' = d
               /\ S' = [lpf_state |-> Zeros(n_ch * n_sections * 2),
                        avg_tail |-> Zeros(d * n_ch),
                        avg_tail_len |-> 0]
               /\ \E g \in Indeterminate :
                      ma_ch_out' = Alloc("ma_ch_out",
                                         [i \in 0..(block_samples * n_in - 1) |-> g])
               /\ ta_out' = Zeros(mto * n_ch)
               /\ S5_out' = Zeros(mto * 4)
               /\ Y2_out' = Alloc("Y2_out", Zeros(mto * 4))
               /\ Y3_out' = Alloc("Y3_out", Zeros(mto * 4))
               /\ YT_out' = Zeros(mto * 4)

\* ------------------------------------------------------- command channel
\* the broker writes one more line to the worker's stdin, at any time while
\* the worker is in its loop
Send(line) ==
    /\ pc \notin {"start", "cleanup", "exited"}
    /\ sent < MaxCmds
    /\ stdin' = Append(stdin, line)
    /\ sent' = sent + 1
    /\ UNCHANGED <<histvars, heapvars, h_lines, pc, exit_status, cfgvars, P, dspvars,
                   youtvars, stdout, uart, h_fblk>>

\* lines of the command study
RepeatLines ==
    { Line("y1_den", <<" ", "2">>),
      Line("y1_den", <<" ", "3", ",", "4">>),
      Line("y2_coeffs", <<" ", "1", ",", "2", ",", "3", ",", "4", ",", "5", ",", "6",
                          ",", "7", ",", "8", ",", "9", ",", "1", ",", "2">>) }

\* the broker of the command study: up to MaxResend lines in a run
SendMore(line) ==
    /\ pc \notin {"start", "cleanup", "exited"}
    /\ sent < MaxResend
    /\ stdin' = Append(stdin, line)
    /\ sent' = sent + 1
    /\ UNCHANGED <<histvars, heapvars, h_lines, pc, exit_status, cfgvars, P, dspvars,
                   youtvars, stdout, uart, h_fblk>>

RECURSIVE ApplyAll(_, _)
ApplyAll(p, lines) ==
    IF lines = <<>> THEN p ELSE ApplyAll(ApplyLine(p, Head(lines)), Tail(lines))

\* (variant: the poll reads until the command channel is empty)
Poll_DrainAll ==
    /\ pc = "poll"
    /\ P' = ApplyAll(P, stdin)
    /\ stdin' = <<>>
    /\ h_lines' = h_lines \o stdin
    /\ h_heap' = IF \E j \in 1..Len(stdin) : CallsParse(stdin[j])
                 THEN h_heap \cup {"strdup", "free"} ELSE h_heap
    /\ cap' = cap
    /\ psum' = psum
    /\ pc' = "refill"
    /\ UNCHANGED <<histvars, exit_status, cfgvars, dspvars, youtvars, sent, stdout, uart, h_fblk>>

\* loop head: check_and_process_stdin(&P)
Poll ==
    /\ pc = "poll"
    /\ P' = check_and_process_stdin(P, stdin)
    /\ stdin' = IF stdin = <<>> THEN stdin ELSE Tail(stdin)
    /\ h_lines' = IF stdin = <<>> THEN h_lines ELSE Append(h_lines, Head(stdin))
    /\ h_heap' = IF stdin # <<>> /\ CallsParse(Head(stdin))
                 THEN h_heap \cup {"strdup", "free"} ELSE h_heap
    /\ cap' = cap
    /\ psum' = psum
    /\ pc' = "refill"
    /\ UNCHANGED <<histvars, exit_status, cfgvars, dspvars, youtvars, sent, stdout, uart, h_fblk>>

\* ------------------------------------------------- steps 1..3 of the loop
\* 1) raw -> float, interleaved with stride n_in
raw_f32(rows) ==
    [idx \in 0..(block_samples * n_in - 1) |->
        rows[(idx \div n_in) + 1][(idx % n_in) + 1] * scales[idx % n_in]]

\* column c of a buffer of stride n_in, as copied into chan_buf
Column(buf, c) == [i \in 0..(block_samples - 1) |-> buf[i * n_in + c]]

\* (variant: every block is filtered from the zero state)
LpfChannels_FreshState(raw) ==
    [c \in 0..(n_ch - 1) |->
        sos_df2t_inplace(Stored(Column(raw, c)), block_samples,
                         Zeros(n_sections * 2))]

\* (variant: the state slices of neighbouring channels overlap)
LpfChannels_SharedState(raw) ==
    [c \in 0..(n_ch - 1) |->
        sos_df2t_inplace(Stored(Column(raw, c)), block_samples,
                         [k \in 0..(n_sections * 2 - 1) |->
                             S.lpf_state[c * n_sections + k]])]

\* 2) LPF of each of the n_ch channels with its own state slice
LpfChannels(raw) ==
    [c \in 0..(n_ch - 1) |->
        sos_df2t_inplace(Stored(Column(raw, c)), block_samples,
                         [k \in 0..(n_sections * 2 - 1) |->
                             S.lpf_state[c * (n_sections * 2) + k]])]

lpf_f32(raw, lpf) ==
    [idx \in 0..(block_samples * n_in - 1) |->
        IF idx % n_in < n_ch THEN lpf[idx % n_in].x[idx \div n_in] ELSE raw[idx]]

\* 2-2) channel moving average, written back with stride n_in; cells of a
\* channel >= n_ch are not written
SmoothChannels(lpfbuf) ==
    LET ma == [c \in 0..(n_ch - 1) |->
                  Stored(moving_average_f32(Stored(Column(lpfbuf, c)),
                                            block_samples, argv.movavg_ch))]
    IN [idx \in 0..(block_samples * n_in - 1) |->
          IF idx % n_in < n_ch THEN ma[idx % n_in][idx \div n_in] ELSE ma_ch_out[idx]]

\* (variant: the block is copied to the start of the buffer, over the tail)
ta_combined_NoOffset(ma) ==
    [idx \in 0..((block_samples + decim) * n_ch - 1) |->
        IF idx < block_samples * n_ch THEN ma[idx] ELSE 0]

\* 3) tail + current block: both memcpy's take n_ch floats per row
ta_combined(ma) ==
    [idx \in 0..((block_samples + decim) * n_ch - 1) |->
        IF idx < S.avg_tail_len * n_ch THEN S.avg_tail[idx]
        ELSE IF idx < (S.avg_tail_len + block_samples) * n_ch
             THEN ma[idx - S.avg_tail_len * n_ch]
             ELSE 0]

\* mean of decim rows of channel c starting at row o * decim
TaMean(comb, o, c) ==
    LET base == o * decim
        ptr == [u \in 0..(decim - 1) |-> comb[(base + u) * n_ch + c]]
    IN RoundDiv(SumTo(ptr, 0, decim), decim)

\* rows and remainder of the TimeAverage step
\* (variant: the carried rows are not counted)
ta_n_NoCarry(total) == block_samples \div decim

ta_n(total) == total \div decim

\* (variant: every combined row is carried over)
ta_rem_KeepAll(total) == total

\* (variant: remainder taken modulo decim + 1)
ta_rem_OffByOne(total) == total % (decim + 1)

ta_rem(total) == total % decim

\* a successful iio_buffer_refill delivering `rows`, then steps 1..3
ProcessBlock(rows) ==
    /\ pc = "refill"
    /\ Len(h_nta) < MaxBlocks
    /\ ma_ch_out # NULL
    /\ cap' = psum_cap(cap, block_samples, argv.movavg_ch)
    /\ h_heap' = IF cap' # cap THEN h_heap \cup {"free", "malloc"} ELSE h_heap
    /\ psum' = IF cap' # cap THEN cap' ELSE psum
    /\ \E raw \in {Stored(raw_f32(rows))} :
       \E lpf \in {Stored(LpfChannels(raw))} :
       \E lpfbuf \in {Stored(lpf_f32(raw, lpf))} :
       \E ma \in {Stored(SmoothChannels(lpfbuf))} :
       \E comb \in {Stored(ta_combined(ma))} :
       LET total == S.avg_tail_len + block_samples
           n == ta_n(total)
           rem == ta_rem(total)
       IN /\ ma_ch_out' = ma
          /\ n_ta' = n
          /\ ta_out' = [idx \in DOMAIN ta_out |->
                          IF idx < n * n_ch THEN TaMean(comb, idx \div n_ch, idx % n_ch)
                          ELSE ta_out[idx]]
          /\ S' = [lpf_state |-> [j \in DOMAIN S.lpf_state |->
                                    lpf[j \div (n_sections * 2)].state[j % (n_sections * 2)]],
                   avg_tail |-> [idx \in DOMAIN S.avg_tail |->
                                    IF idx < rem * n_ch
                                    THEN comb[n * decim * n_ch + idx]
                                    ELSE S.avg_tail[idx]],
                   avg_tail_len |-> rem]
          /\ h_rows' = h_rows \o [i \in 1..block_samples |->
                                     [c \in 0..(n_ch - 1) |-> ma[(i - 1) * n_in + c]]]
          /\ h_nta' = Append(h_nta, n)
          /\ h_raw' = h_raw \o [i \in 1..block_samples |->
                                   [c \in 0..(n_ch - 1) |-> raw[(i - 1) * n_in + c]]]
    /\ pc' = "emit3"
    /\ UNCHANGED <<histvars, h_lines, exit_status, cfgvars, P, youtvars, iovars>>

\* iio_buffer_refill(buf) < 0: leave the loop
RefillFail ==
    /\ pc = "refill"
    /\ pc' = "cleanup"
    /\ h_refill_err' = TRUE
    /\ UNCHANGED <<fine_y1d, fine_div, ma_calls, released, heapvars, h_lines,
                   exit_status, cfgvars, P, dspvars, youtvars, iovars>>

\* ------------------------------------------------------------ frame output
\* (variant: the payload is written column by column)
Frame_ColumnMajor(ft, n_samp, nch, buf) ==
    [frame_type |-> ft, n_samp |-> n_samp, n_ch |-> nch,
     payload |-> [i \in 1..(n_samp * nch) |->
                     buf[((i - 1) % n_samp) * nch + ((i - 1) \div n_samp)]]]

Frame(ft, n_samp, nch, buf) ==
    [frame_type |-> ft, n_samp |-> n_samp, n_ch |-> nch,
     payload |-> [i \in 1..(n_samp * nch) |-> buf[i - 1]]]

\* fwrite of type byte, header and payload, then fflush
Emit(ft, nch, buf) ==
    /\ stdout' = Append(stdout, Frame(ft, n_ta, nch, buf))
    /\ h_fblk' = Append(h_fblk, Len(h_nta))

\* the 4 bytes of a 32-bit word in memory order (least significant first);
\* a float is written as the 32-bit image of its value
word_bytes(v) ==
    <<v % 256, (v \div 256) % 256, (v \div 65536) % 256, (v \div 16777216) % 256>>

RECURSIVE floats_bytes(_, _)
\* the bytes of payload[i..]
floats_bytes(payload, i) ==
    IF i > Len(payload) THEN <<>>
    ELSE word_bytes(payload[i]) \o floats_bytes(payload, i + 1)

\* the three fwrite calls of a frame: type byte, packed block_hdr_t, floats
fwrite_frame(f) ==
    <<f.frame_type>> \o word_bytes(f.n_samp) \o word_bytes(f.n_ch)
        \o floats_bytes(f.payload, 1)

\* (variant: the frame is written for n_ta >= 0)
EmitStage3_Always ==
    /\ pc = "emit3"
    /\ Emit(FT_STAGE3_8CH, n_ch, ta_out)
    /\ pc' = "stage59"
    /\ UNCHANGED <<histvars, heapvars, h_lines, exit_status, cfgvars, P, dspvars,
                   youtvars, stdin, sent, uart>>

EmitStage3 ==
    /\ pc = "emit3"
    /\ IF n_ta > 0 THEN Emit(FT_STAGE3_8CH, n_ch, ta_out)
       ELSE UNCHANGED <<stdout, h_fblk>>
    /\ pc' = "stage59"
    /\ UNCHANGED <<histvars, heapvars, h_lines, exit_status, cfgvars, P, dspvars,
                   youtvars, stdin, sent, uart>>

\* ------------------------------------------------------ Stage5 and y-chain
\* R at TA rate for quad q, row t
R_of(q, t) ==
    LET top0 == ta_out[t * n_ch + sensor_idx[q + 1]]
        bot0 == ta_out[t * n_ch + standard_idx[q + 1]]
        top1 == IF P.r_abs # 0 /\ top0 < 0 THEN -top0 ELSE top0
        bot1 == IF P.r_abs # 0 /\ bot0 < 0 THEN -bot0 ELSE bot0
        top == IF top1 < Tiny THEN Tiny ELSE top1
        bot == IF bot1 < Tiny THEN Tiny ELSE bot1
        base == IF P.k > 1 THEN P.k ELSE 10
        r_scale == (P.alpha * P.beta) * P.gamma
    IN r_scale * log_ratio(top, bot, base) + P.b

\* the divisor of the y1 stage, (fabs(y1d) < 1e-12) ? 1e-12 : y1d, with
\* 1e-12 being `tiny` in the unit of den
y1_divisor(den, tiny) == IF Abs(den) < tiny THEN tiny ELSE den

\* (variant: yt is taken from y2 instead of y3)
YChain_YtFromY2(p, r) ==
    LET y1n == polyval_f64(p.y1_num, p.y1_num_len, r)
        y1d == polyval_f64(p.y1_den, p.y1_den_len, r)
        y1 == RoundDiv(y1n, y1_divisor(y1d, Tiny))
        y2 == polyval_f64(p.y2_coeffs, p.y2_coeffs_len, y1)
        y3 == polyval_f64(p.y3_coeffs, p.y3_coeffs_len, y2)
    IN [y1 |-> y1, y2 |-> y2, y3 |-> y3, yt |-> p.E * y2 + p.F]

\* y1 .. yt of one Ravg value under the parameters p
YChain(p, r) ==
    LET y1n == polyval_f64(p.y1_num, p.y1_num_len, r)
        y1d == polyval_f64(p.y1_den, p.y1_den_len, r)
        y1 == RoundDiv(y1n, y1_divisor(y1d, Tiny))
        y2 == polyval_f64(p.y2_coeffs, p.y2_coeffs_len, y1)
        y3 == polyval_f64(p.y3_coeffs, p.y3_coeffs_len, y2)
    IN [y1 |-> y1, y2 |-> y2, y3 |-> y3, yt |-> p.E * y3 + p.F]

\* 4) the quad loop; skipped together with the remaining frames when n_ta = 0
Stage59 ==
    /\ pc = "stage59"
    /\ n_ta > 0 => (Y2_out # NULL /\ Y3_out # NULL)
    /\ cap' = IF n_ta > 0 THEN psum_cap(cap, n_ta, P.movavg_r) ELSE cap
    /\ h_heap' = IF cap' # cap THEN h_heap \cup {"free", "malloc"} ELSE h_heap
    /\ psum' = IF cap' # cap THEN cap' ELSE psum
    /\ IF n_ta > 0 THEN
          \E Ravg \in {Stored([q \in 0..3 |->
                         Stored(moving_average_f32(
                                    Stored([t \in 0..(n_ta - 1) |-> R_of(q, t)]),
                                    n_ta, P.movavg_r))])} :
          LET y(idx) == YChain(P, Ravg[idx % 4][idx \div 4])
          IN /\ S5_out' = [idx \in DOMAIN S5_out |->
                             IF idx < n_ta * 4 THEN Ravg[idx % 4][idx \div 4]
                             ELSE S5_out[idx]]
             /\ Y2_out' = [idx \in DOMAIN Y2_out |->
                             IF idx < n_ta * 4 THEN y(idx).y2 ELSE Y2_out[idx]]
             /\ Y3_out' = [idx \in DOMAIN Y3_out |->
                             IF idx < n_ta * 4 THEN y(idx).y3 ELSE Y3_out[idx]]
             /\ YT_out' = [idx \in DOMAIN YT_out |->
                             IF idx < n_ta * 4 THEN y(idx).yt ELSE YT_out[idx]]
             /\ pc' = "emit5"
       ELSE /\ UNCHANGED youtvars
            /\ pc' = "poll"
    /\ UNCHANGED <<histvars, h_lines, exit_status, cfgvars, P, dspvars, iovars>>

EmitStage5 ==
    /\ pc = "emit5"
    /\ Emit(FT_STAGE5_4CH, 4, S5_out)
    /\ pc' = "emit7"
    /\ UNCHANGED <<histvars, heapvars, h_lines, exit_status, cfgvars, P, dspvars,
                   youtvars, stdin, sent, uart>>

\* (variant: the command channel is polled again before the Stage7 frame)
EmitStage7_Polling ==
    /\ pc = "emit7"
    /\ P' = check_and_process_stdin(P, stdin)
    /\ stdin' = IF stdin = <<>> THEN stdin ELSE Tail(stdin)
    /\ Emit(FT_STAGE7_Y2, 4, Y2_out)
    /\ pc' = "emit8"
    /\ UNCHANGED <<histvars, heapvars, h_lines, exit_status, cfgvars, dspvars, youtvars,
                   sent, uart>>

EmitStage7 ==
    /\ pc = "emit7"
    /\ Emit(FT_STAGE7_Y2, 4, Y2_out)
    /\ pc' = "emit8"
    /\ UNCHANGED <<histvars, heapvars, h_lines, exit_status, cfgvars, P, dspvars,
                   youtvars, stdin, sent, uart>>

EmitStage8 ==
    /\ pc = "emit8"
    /\ Emit(FT_STAGE8_Y3, 4, Y3_out)
    /\ pc' = "emit9"
    /\ UNCHANGED <<histvars, heapvars, h_lines, exit_status, cfgvars, P, dspvars,
                   youtvars, stdin, sent, uart>>

EmitStage9 ==
    /\ pc = "emit9"
    /\ Emit(FT_STAGE9_YT4, 4, YT_out)
    /\ pc' = "uart"
    /\ UNCHANGED <<histvars, heapvars, h_lines, exit_status, cfgvars, P, dspvars,
                   youtvars, stdin, sent, uart>>

\* (variant: a port that did not open ends the loop)
UartTrace_Fatal ==
    /\ pc = "uart"
    /\ uart' = IF uart_fd >= 0
               THEN uart \o [i \in 1..n_ta |->
                               <<i - 1, YT_out[(i - 1) * 4], YT_out[(i - 1) * 4 + 1],
                                 YT_out[(i - 1) * 4 + 2], YT_out[(i - 1) * 4 + 3]>>]
               ELSE uart
    /\ pc' = IF uart_fd >= 0 THEN "poll" ELSE "cleanup"
    /\ UNCHANGED <<histvars, heapvars, h_lines, exit_status, cfgvars, P, dspvars,
                   youtvars, stdin, sent, stdout, h_fblk>>

\* the YT[t] lines of the block handed to dprintf, when the port is open; the
\* result of dprintf is not looked at
UartTrace ==
    /\ pc = "uart"
    /\ uart' = IF uart_fd >= 0
               THEN uart \o [i \in 1..n_ta |->
                               <<i - 1, YT_out[(i - 1) * 4], YT_out[(i - 1) * 4 + 1],
                                 YT_out[(i - 1) * 4 + 2], YT_out[(i - 1) * 4 + 3]>>]
               ELSE uart
    /\ pc' = "poll"
    /\ UNCHANGED <<histvars, heapvars, h_lines, exit_status, cfgvars, P, dspvars,
                   youtvars, stdin, sent, stdout, h_fblk>>

\* what startup has acquired when the loop is entered: the work buffers, the
\* filter state, the carry tail, the ADC buffer, the channel tables, the
\* context, and the serial handle when it could be opened
Acquired ==
    ({"raw_f32", "lpf_f32", "ma_ch_out", "chan_buf", "ta_combined", "ta_out",
      "R_buf", "Ravg_buf", "S5_out", "Y2_out", "Y3_out", "YT_out",
      "lpf_state", "avg_tail", "buf", "in_ch", "scales", "ctx"} \ {alloc_fail})
    \cup (IF uart_fd >= 0 THEN {"uart_fd"} ELSE {})

\* the free, destroy and close calls after the loop, in order
ReleaseCalls ==
    <<"Y3_out", "Y2_out", "YT_out", "S5_out", "Ravg_buf", "R_buf", "ta_out",
      "ta_combined", "chan_buf", "lpf_f32", "raw_f32", "avg_tail", "lpf_state",
      "buf", "in_ch", "scales", "ctx">>
    \o (IF uart_fd >= 0 THEN <<"uart_fd">> ELSE <<>>)

\* the code after the loop: the release calls (free(NULL) releases nothing),
\* return 0
Cleanup ==
    /\ pc = "cleanup"
    /\ pc' = "exited"
    /\ exit_status' = 0
    /\ released' = SelectSeq(ReleaseCalls, LAMBDA r : r # alloc_fail)
    /\ UNCHANGED <<h_refill_err, fine_y1d, fine_div, ma_calls, heapvars, h_lines,
                   cfgvars, P, dspvars, youtvars, iovars>>

\* a store through a null work buffer: the smoothing step writes ma_ch_out,
\* the y-chain writes Y2_out and Y3_out; the kernel ends the process
Fault ==
    /\ \/ pc = "refill" /\ Len(h_nta) < MaxBlocks /\ ma_ch_out = NULL
       \/ pc = "stage59" /\ n_ta > 0 /\ (Y2_out = NULL \/ Y3_out = NULL)
    /\ pc' = "exited"
    /\ exit_status' = SIGSEGV
    /\ UNCHANGED <<histvars, heapvars, h_lines, cfgvars, P, dspvars, youtvars, iovars>>

Next ==
    \/ Startup
    \/ \E line \in CommandLines : Send(line)
    \/ Poll
    \/ \E rows \in AdcBlocks(block_samples) : ProcessBlock(rows)
    \/ RefillFail
    \/ EmitStage3
    \/ Stage59
    \/ EmitStage5
    \/ EmitStage7
    \/ EmitStage8
    \/ EmitStage9
    \/ UartTrace
    \/ Cleanup
    \/ Fault

Spec == Init /\ [][Next]_vars

\* ---------------------------------------------------------- command study
\* one valid start (8 channels, decim 1, every allocation succeeds) and a
\* broker that writes up to MaxResend lines
InitCmds ==
    /\ Init
    /\ argv = [block_samples |-> 1, sampling_freq |-> 1, target_rate_hz |-> 1,
               movavg_r |-> 1, movavg_ch |-> 3]
    /\ n_in = 8
    /\ uart_fd = -1
    /\ argc = MinArgc
    /\ alloc_fail = "none"

NextCmds ==
    \/ Startup
    \/ \E line \in RepeatLines : SendMore(line)
    \/ Poll
    \/ \E rows \in AdcBlocks(block_samples) : ProcessBlock(rows)
    \/ RefillFail
    \/ EmitStage3
    \/ Stage59
    \/ EmitStage5
    \/ EmitStage7
    \/ EmitStage8
    \/ EmitStage9
    \/ UartTrace
    \/ Cleanup

SpecCmds == InitCmds /\ [][NextCmds]_vars

\* -------------------------------------------------------- denominator study
\* the guard of the y1 stage applied to denominators on a grid of 1e-13
InitGuard ==
    /\ pc = "start"
    /\ exit_status = -1
    /\ argv = [block_samples |-> 1, sampling_freq |-> 1, target_rate_hz |-> 1,
               movavg_r |-> 1, movavg_ch |-> 1]
    /\ n_in = 8
    /\ scales \in ScaleTables
    /\ uart_fd = -1
    /\ P = InitParams(argv)
    /\ S = [lpf_state |-> <<>>, avg_tail |-> <<>>, avg_tail_len |-> 0]
    /\ decim = 0
    /\ ma_ch_out = <<>> /\ ta_out = <<>> /\ n_ta = 0
    /\ S5_out = <<>> /\ Y2_out = <<>> /\ Y3_out = <<>> /\ YT_out = <<>>
    /\ stdin = <<>> /\ sent = 0 /\ stdout = <<>> /\ uart = <<>>
    /\ h_rows = <<>> /\ h_nta = <<>> /\ h_fblk = <<>> /\ h_refill_err = FALSE
    /\ argc = MinArgc /\ alloc_fail = "none"
    /\ cap = 0 /\ h_heap = {} /\ h_lines = <<>>
    /\ fine_y1d \in (-MaxFine)..MaxFine
    /\ fine_div = 0
    /\ psum = 0 /\ ma_calls = <<>> /\ h_raw = <<>> /\ released = <<>>

\* const double y1 = y1n / ((fabs(y1d) < 1e-12) ? 1e-12 : y1d): the divisor
GuardStep ==
    /\ fine_div = 0
    /\ fine_div' = y1_divisor(fine_y1d, TinyFine)
    /\ UNCHANGED <<pc, exit_status, cfgvars, P, dspvars, youtvars, iovars, heapvars,
                   h_lines, h_refill_err, fine_y1d, ma_calls, released>>

SpecGuard == InitGuard /\ [][GuardStep]_vars

\* ---------------------------------------------------------- smoothing study
\* signals handed to moving_average_f32, flat and 0-based
MaSignals ==
    {[i \in 0..(Len(v) - 1) |-> v[i + 1]] :
        v \in {w \in {<<6>>, <<0, 6>>, <<6, 0, 12>>, <<12, 0, 0, 24>>,
                      <<1, 2, 4, 8>>, <<30, 0, 0, 0, 60>>} : Len(w) <= MaxLen}}

SignalLen(in) == Cardinality(DOMAIN in)

InitMA ==
    /\ InitGuard
    /\ fine_y1d = 0

\* moving_average_f32(in, out, len, N) called with the statics as they are
MaCall(in, N, ok) ==
    /\ Len(ma_calls) < MaxCalls
    /\ \A j \in 1..Len(ma_calls) : ma_calls[j].status # "fault"
    /\ \E r \in {moving_average_call(in, SignalLen(in), N, cap, psum, ok)} :
          /\ cap' = r.cap
          /\ psum' = r.psum
          /\ ma_calls' = Append(ma_calls,
                                [in |-> in, len |-> SignalLen(in), N |-> N,
                                 cap0 |-> cap, psum0 |-> psum,
                                 out |-> r.out, status |-> r.status,
                                 direct |-> moving_average_direct(
                                                in, SignalLen(in), N, FALSE),
                                 direct_inplace |-> moving_average_direct(
                                                in, SignalLen(in), N, TRUE)])
    /\ UNCHANGED <<pc, exit_status, cfgvars, P, dspvars, youtvars, iovars, h_heap,
                   h_lines, h_refill_err, fine_y1d, fine_div, released>>

NextMA == \E in \in MaSignals, N \in (-1)..MaxW, ok \in BOOLEAN : MaCall(in, N, ok)

SpecMA == InitMA /\ [][NextMA]_vars

TypeOK == pc \in {"start", "poll", "refill", "emit3", "stage59", "emit5",
                  "emit7", "emit8", "emit9", "uart", "cleanup", "exited"}

\* ================================================================ properties
\* the main loop has been entered (every startup check passed)
Started == pc # "start" /\ startup_status = 0

\* the block named last in h_nta is between its decimation and its last frame
InFlight == pc \in {"emit3", "stage59", "emit5", "emit7", "emit8", "emit9"}

RECURSIVE Stage3Of(_)
\* the payloads of the Stage3 frames of a frame sequence, concatenated
Stage3Of(frames) ==
    IF frames = <<>> THEN <<>>
    ELSE (IF Head(frames).frame_type = 1 THEN Head(frames).payload ELSE <<>>)
         \o Stage3Of(Tail(frames))

Stage3Floats == Stage3Of(stdout)

Stage3RowCount == Len(Stage3Floats) \div 8

\* mean over rows j*decim .. j*decim+decim-1 of the smoothed rows, channel c
HistMean(j, c) ==
    RoundDiv(SumTo([u \in 0..(decim - 1) |-> h_rows[j * decim + u + 1][c]], 0, decim),
             decim)

\* every Stage3 row written so far is the mean of its decim smoothed rows
Stage3FollowsHistory ==
    \A j \in 0..(Stage3RowCount - 1) : \A c \in 0..7 :
        /\ (j + 1) * decim <= Len(h_rows)
        /\ Stage3Floats[j * 8 + c + 1] = HistMean(j, c)

\* carry_tail holds the last carry_len smoothed rows, in order
TailIsHistorySuffix ==
    \A i \in 0..(S.avg_tail_len - 1) : \A c \in 0..7 :
        /\ S.avg_tail_len <= Len(h_rows)
        /\ S.avg_tail[i * 8 + c] = h_rows[Len(h_rows) - S.avg_tail_len + i + 1][c]

\* C1: after the decimation step of any block 0 <= carry_len < decim, for any
\* block_samples >= 1 and decim >= 1; carry_len is 0 before the first block.
C1_CarryLenInRange ==
    Started => /\ 0 <= S.avg_tail_len
               /\ S.avg_tail_len < decim
               /\ (h_nta = <<>> => S.avg_tail_len = 0)

\* C1 witness: two blocks shorter than decim were decimated and rows are carried
C1_Witness ==
    /\ Started /\ Len(h_nta) = 2
    /\ block_samples < decim
    /\ S.avg_tail_len = 2 * block_samples

\* the blocks of h_nta that produced rows, by number
NzBlocks == SelectSeq([k \in 1..Len(h_nta) |-> k], LAMBDA k : h_nta[k] > 0)

\* frames of the block in flight that its position says are written
WrittenInFlight ==
    CASE pc = "emit3" -> 0
      [] pc \in {"stage59", "emit5"} -> 1
      [] pc = "emit7" -> 2
      [] pc = "emit8" -> 3
      [] pc = "emit9" -> 4
      [] OTHER -> 5

\* C2 (as claimed): every block with n_out > 0 writes exactly the five frames
\* of types 1, 2, 4, 5, 3 in this order and nothing else, a block with
\* n_out = 0 writes no frame, and the frames of the blocks follow each other in
\* block order.  (It holds in every run whose allocations succeed; a run with
\* a null Y2_out or Y3_out ends in Fault after the Stage3 frame.)
C2_FiveFramesPerBlock ==
    LET order == <<1, 2, 4, 5, 3>>
        missing == IF InFlight /\ h_nta[Len(h_nta)] > 0 THEN 5 - WrittenInFlight ELSE 0
    IN /\ Len(stdout) = 5 * Len(NzBlocks) - missing
       /\ \A i \in 1..Len(stdout) :
            /\ stdout[i].frame_type = order[((i - 1) % 5) + 1]
            /\ h_fblk[i] = NzBlocks[((i - 1) \div 5) + 1]
            /\ stdout[i].n_samp = h_nta[h_fblk[i]]

\* a block without rows was followed by a block with rows, and this one has
\* written its five frames
C2_Witness ==
    /\ pc = "poll" /\ Len(h_nta) = 2
    /\ h_nta[1] = 0 /\ h_nta[2] > 0
    /\ Len(stdout) = 5

\* C3 (as claimed): a failed ADC refill ends the worker with a nonzero status.
C3_RefillFailureExitsNonzero ==
    (pc = "exited" /\ h_refill_err) => exit_status # 0

\* C4: with exactly 8 input channels the j-th Stage3 row of the run is the mean
\* of rows j*decim .. j*decim+decim-1 of all smoothed rows in arrival order,
\* carry_tail is the last carry_len of these rows, and no row is left out.
C4_DecimationContiguous ==
    (Started /\ n_in = 8) =>
        /\ Stage3FollowsHistory
        /\ TailIsHistorySuffix
        /\ (~InFlight => Stage3RowCount = Len(h_rows) \div decim)
        /\ (~InFlight => Stage3RowCount * decim + S.avg_tail_len = Len(h_rows))

\* C4 witness: a Stage3 row was averaged over rows of two blocks, and rows of
\* the second block are carried again
C4_Witness ==
    /\ Started /\ n_in = 8 /\ pc = "poll" /\ Len(h_nta) = 2
    /\ block_samples % decim # 0
    /\ h_nta[2] > 0
    /\ S.avg_tail_len > 0

\* number of Stage3 rows written, from the frame headers
RowsEmitted ==
    LET f == [i \in 1..Len(stdout) |->
                IF stdout[i].frame_type = FT_STAGE3_8CH THEN stdout[i].n_samp ELSE 0]
    IN SumTo(f, 1, Len(stdout) + 1)

\* C5: after N processed blocks floor(N*block_samples/decim) rows were emitted
\* and decim * rows + carry_len = N * block_samples.
C5_RowCount ==
    (Started /\ pc # "emit3") =>
        LET N == Len(h_nta) IN
        /\ RowsEmitted = (N * block_samples) \div decim
        /\ decim * RowsEmitted + S.avg_tail_len = N * block_samples

\* C5 witness: two blocks processed, rows emitted and rows carried
C5_Witness ==
    /\ Started /\ pc = "poll" /\ Len(h_nta) = 2
    /\ RowsEmitted >= 1
    /\ S.avg_tail_len >= 1

\* C6 (as claimed): with more than 8 input channels the extra channel is
\* ignored, so every Stage3 row is still the mean of its decim smoothed rows of
\* channels 0..7.
C6_ExtraChannelIgnored ==
    (Started /\ n_in > 8) => Stage3FollowsHistory

\* a step of the command poll that found a line on stdin
PollsLine == pc = "poll" /\ pc' = "refill" /\ stdin # <<>>

\* the frames of types 2, 4, 5, 3 last written belong together, and rows of
\* the last three are the y-chain of the rows of the first under P
LastFramesMatchParams ==
    LET L == Len(stdout)
        f5 == stdout[L - 3]
        f7 == stdout[L - 2]
        f8 == stdout[L - 1]
        f9 == stdout[L]
    IN /\ L >= 5
       /\ \A i \in 1..(f5.n_samp * 4) :
            LET y == YChain(P, f5.payload[i])
            IN /\ f7.payload[i] = y.y2
               /\ f8.payload[i] = y.y3
               /\ f9.payload[i] = y.yt

\* C7: Params changes only in the command poll at the top of an iteration, so
\* the Stage7, Stage8 and Stage9 frames of a block are all computed with the
\* parameters that are in force when the Stage9 frame has been written.
C7_ParamsFixedWithinBlock ==
    [][ /\ (P' # P => pc = "poll")
        /\ (pc = "uart" => LastFramesMatchParams) ]_vars

\* C7 witness: a command has changed the parameters and a block has written
\* its Stage9 frame under them
C7_Witness ==
    /\ pc = "uart"
    /\ P # InitParams(argv)
    /\ \E i \in 1..(n_ta * 4) : stdout[Len(stdout)].payload[i] # 0

\* accepted command lines: the field they name and the decimals they carry
AcceptedLines ==
    { [line |-> Line("y1_den", <<" ", "2">>), vals |-> <<2>>],
      [line |-> Line("y2_coeffs", <<" ", "2", ",", "0">>), vals |-> <<2, 0>>],
      [line |-> Line("y3_coeffs", <<" ", "1", ",", "-", "1">>), vals |-> <<1, -1>>],
      [line |-> Line("yt_coeffs", <<" ", "3", ",", "1">>), vals |-> <<3, 1>>] }

\* the fields of Params a command key names
NamedFields(key) ==
    IF key = "yt_coeffs" THEN {"E", "F"}
    ELSE {key, IF key = "y1_den" THEN "y1_den_len"
               ELSE IF key = "y2_coeffs" THEN "y2_coeffs_len" ELSE "y3_coeffs_len"}

\* p holds exactly the decimals vals in the field named by key
HoldsValues(p, key, vals) ==
    IF key = "yt_coeffs" THEN p.E = vals[1] /\ p.F = vals[2]
    ELSE /\ \A i \in 1..Len(vals) : p[key][i - 1] = vals[i]
         /\ p[CHOOSE f \in NamedFields(key) : f # key] = Len(vals)

RECURSIVE Pow(_, _)
Pow(x, n) == IF n = 0 THEN 1 ELSE x * Pow(x, n - 1)

\* c[0]*x^(len-1) + ... + c[len-1]
PolyValue(c, len, x) == SumTo([i \in 0..len |-> IF i < len THEN c[i] * Pow(x, len - 1 - i) ELSE 0], 0, len)

\* C8: an accepted command changes only the field it names (yt_coeffs: E and
\* F), which then holds the decimals of the command; every other field of
\* Params, lpf_state, carry_tail and carry_len stay as they were; and the y2
\* of a block is the polynomial y2_coeffs in force, evaluated at y1.
C8_CommandChangesOnlyNamedField ==
    [][ /\ \A a \in AcceptedLines :
              (PollsLine /\ Head(stdin) = a.line) =>
                  /\ S' = S
                  /\ \A f \in DOMAIN P \ NamedFields(a.line.key) : P'[f] = P[f]
                  /\ HoldsValues(P', a.line.key, a.vals)
        /\ (pc = "emit7" =>
              \A idx \in 0..(n_ta * 4 - 1) :
                  Y2_out[idx] = PolyValue(P.y2_coeffs, P.y2_coeffs_len,
                                          YChain(P, S5_out[idx]).y1)) ]_vars

\* C8 witness: y2_coeffs 2,0 was applied and a block has a y2 = 2 * y1 # 0
C8_Witness ==
    /\ pc = "emit7"
    /\ P.y2_coeffs_len = 2 /\ P.y2_coeffs[0] = 2 /\ P.y2_coeffs[1] = 0
    /\ \E idx \in 0..(n_ta * 4 - 1) :
          /\ Y2_out[idx] # 0
          /\ Y2_out[idx] = 2 * YChain(P, S5_out[idx]).y1

\* entries of the value list of a line: one more than its commas
Entries(line) == Cardinality({i \in 1..Len(line.tail) : line.tail[i] = ","}) + 1

\* C9 (as claimed): a yt_coeffs command sets E and F if and only if its value
\* list has exactly two entries; with one entry, or three or more, E and F keep
\* their values.
C9_YtNeedsExactlyTwo ==
    [][ (PollsLine /\ Head(stdin).key = "yt_coeffs") =>
           LET toks == strtok(SkipWs(Head(stdin).tail)) IN
           IF Entries(Head(stdin)) = 2
           THEN P'.E = atof(toks[1]) /\ P'.F = atof(toks[2])
           ELSE P'.E = P.E /\ P'.F = P.F ]_vars

\* a line has a character no decimal number list contains
HasNonDecimal(line) ==
    \E i \in 1..Len(line.tail) :
        line.tail[i] \notin (DOMAIN DigitVal \cup {",", " ", "-", "+"})

\* C10 (as claimed): a line with a recognised key and a token that is no
\* decimal number is dropped: Params after the poll equals Params before it.
C10_MalformedLineDropped ==
    [][ (PollsLine /\ HasNonDecimal(Head(stdin))) => P' = P ]_vars

\* the keys check_and_process_stdin compares with
CommandKeys == {"y1_den", "y2_coeffs", "y3_coeffs", "yt_coeffs"}

\* a line with an unknown key, or with a key and no value text
Unrecognised(line) == line.key \notin CommandKeys \/ SkipWs(line.tail) = <<>>

\* the line fgets returned last
h_last == h_lines[Len(h_lines)]

\* C11: a command line whose key is none of y1_den, y2_coeffs, y3_coeffs,
\* yt_coeffs, or that is a key with no value text, leaves every field of Params
\* (and the DSP state and the output) as they were, and the worker goes on to
\* the refill of the block; the frames of that block are those of the
\* unchanged parameters.
C11_UnrecognisedLineIgnored ==
    [][ /\ (PollsLine /\ Unrecognised(Head(stdin))) =>
              /\ P' = P
              /\ pc' = "refill"
              /\ UNCHANGED <<exit_status, dspvars, youtvars, stdout>>
        /\ (pc = "uart" /\ Len(h_lines) = 1 /\ Unrecognised(h_lines[1])) =>
              (P = InitParams(argv) /\ LastFramesMatchParams) ]_vars

\* C11 witness: the line "gain 5" was read and the block after it has written
\* its five frames under the initial parameters
C11_Witness ==
    /\ pc = "uart" /\ Len(h_lines) = 1
    /\ h_last.key = "gain"
    /\ Len(h_nta) = 1 /\ Len(stdout) = 5
    /\ P = InitParams(argv)

\* the line of the command study that carries eleven values, and its values
ElevenLine == CHOOSE l \in RepeatLines : l.key = "y2_coeffs"

ElevenValues == <<1, 2, 3, 4, 5, 6, 7, 8, 9, 1, 2>>

\* the live lengths and the arrays of p respect the capacity
WithinCapacity(p) ==
    /\ p.y1_den_len \in 0..MaxCoeffs /\ DOMAIN p.y1_den = 0..(MaxCoeffs - 1)
    /\ p.y2_coeffs_len \in 0..MaxCoeffs /\ DOMAIN p.y2_coeffs = 0..(MaxCoeffs - 1)
    /\ p.y3_coeffs_len \in 0..MaxCoeffs /\ DOMAIN p.y3_coeffs = 0..(MaxCoeffs - 1)

\* C12: after any sequence of commands each of y1_den, y2_coeffs, y3_coeffs
\* has a live length of at most 10, and a command with more than 10 values
\* stores exactly its first 10 values: the array holds them, the length is
\* 10, and no other field of Params is written.
C12_CoefficientCap ==
    [][ /\ WithinCapacity(P) /\ WithinCapacity(P')
        /\ (PollsLine /\ Head(stdin) = ElevenLine) =>
              /\ P'.y2_coeffs = [i \in 0..(MaxCoeffs - 1) |-> ElevenValues[i + 1]]
              /\ P'.y2_coeffs_len = MaxCoeffs
              /\ \A f \in DOMAIN P \ {"y2_coeffs", "y2_coeffs_len"} : P'[f] = P[f] ]_vars

\* C12 witness: the eleven-value line was read after another command
C12_Witness ==
    /\ pc = "refill" /\ Len(h_lines) = 2
    /\ h_last = ElevenLine /\ h_lines[1].key = "y1_den"
    /\ P.y2_coeffs_len = MaxCoeffs /\ P.y2_coeffs[9] = 1

\* C13: applying the same y1_den line again, any number of times in
\* succession, leaves Params as the first application left it.
C13_Y1DenIdempotent ==
    [][ (PollsLine /\ h_lines # <<>> /\ Head(stdin).key = "y1_den"
           /\ Head(stdin) = h_last) => P' = P ]_vars

\* C13 witness: the line "y1_den 3,4" was applied three times in succession
C13_Witness ==
    /\ pc = "refill" /\ Len(h_lines) = 3
    /\ \A i \in 1..3 : h_lines[i] = Line("y1_den", <<" ", "3", ",", "4">>)
    /\ P.y1_den_len = 2 /\ P.y1_den[0] = 3 /\ P.y1_den[1] = 4

\* the divisor has been computed in the denominator study
Guarded == fine_div # 0

\* C14 (as claimed): when |den| < 1e-12 the divisor of the y1 stage has
\* magnitude 1e-12 and the sign of den (a small negative den divides by
\* -1e-12); when |den| >= 1e-12 the divisor is den itself.
C14_DivisorKeepsSign ==
    Guarded =>
        IF Abs(fine_y1d) < TinyFine
        THEN /\ Abs(fine_div) = TinyFine
             /\ (fine_y1d < 0 => fine_div < 0)
             /\ (fine_y1d > 0 => fine_div > 0)
        ELSE fine_div = fine_y1d

\* main has ended before its loop with a status that is not 0
FatalAtStartup == pc = "exited" /\ exit_status \notin {-1, 0} /\ h_nta = <<>>

\* a work buffer of the loop is null
NullWorkBuffer ==
    ma_ch_out = NULL \/ ta_out = NULL \/ S5_out = NULL \/ Y2_out = NULL
        \/ Y3_out = NULL \/ YT_out = NULL

\* C15 (as claimed): when a startup allocation fails, the channel-smoothing
\* buffer and the y2 and y3 buffers included, the worker ends with a nonzero
\* status before the main loop, and the loop never runs with a null buffer.
C15_AllocFailureFatal ==
    /\ (alloc_fail # "none" /\ pc # "start") => FatalAtStartup
    /\ (pc \notin {"start", "exited"}) => ~NullWorkBuffer

\* C16 (as claimed): once the main loop has been entered no malloc, realloc
\* or free is called by any step of any block.
C16_NoHeapCallInLoop == h_heap = {}

\* C17: with fewer than 8 input channels, or decim = floor(fs / target_rate)
\* <= 0, or fewer than seven arguments, the worker ends at startup with a
\* nonzero status and writes no frame.
C17_StartupRejects ==
    (\/ n_in < 8
     \/ RoundDiv(argv.sampling_freq, argv.target_rate_hz) <= 0
     \/ argc < MinArgc) =>
        /\ pc \in {"start", "exited"}
        /\ stdout = <<>>
        /\ (pc = "exited" => FatalAtStartup)

\* C17 witness: a start with 8 channels and seven arguments and decim = 0 has
\* ended with its own status
C17_Witness ==
    /\ pc = "exited" /\ exit_status = 8
    /\ n_in >= 8 /\ argc = MinArgc /\ decim = 0

\* an argument that is not a positive number
InvalidArgument ==
    \/ argv.block_samples <= 0 \/ argv.sampling_freq <= 0
    \/ argv.target_rate_hz <= 0
    \/ argv.movavg_r <= 0 \/ argv.movavg_ch <= 0

\* C18 (as claimed): when block_samples, sampling_frequency, target_rate_hz,
\* movavg_r or movavg_ch is not a positive number, the worker ends at startup
\* with a nonzero status and never enters the main loop.
C18_InvalidArgumentFatal ==
    (InvalidArgument /\ alloc_fail = "none" /\ pc # "start") => FatalAtStartup

\* the trace lines of the block whose Stage9 frame is the last frame written
TraceLinesOfLastFrame ==
    LET f9 == stdout[Len(stdout)]
    IN [i \in 1..f9.n_samp |->
          <<i - 1, f9.payload[(i - 1) * 4 + 1], f9.payload[(i - 1) * 4 + 2],
            f9.payload[(i - 1) * 4 + 3], f9.payload[(i - 1) * 4 + 4]>>]

\* C19: the serial port does not affect the primary stream. The descriptor is
\* read only by the trace step that follows the Stage9 frame of a block; this
\* step of the worker leaves the primary output, the parameters, the DSP state and the exit
\* status alone and returns to the head of the loop whether the port is open
\* or not; with the port open it writes exactly n_out lines, rows 0..n_out-1
\* of that Stage9 frame in order, and with the port closed it writes none; no
\* other step writes to the port.
C19_UartDoesNotAffectStream ==
    [][ /\ uart_fd' = uart_fd
        /\ (pc = "uart" /\ pc' # pc) =>
              /\ pc' = "poll"
              /\ UNCHANGED <<stdout, h_fblk, P, dspvars, youtvars, exit_status, stdin>>
              /\ stdout[Len(stdout)].frame_type = FT_STAGE9_YT4
              /\ stdout[Len(stdout)].n_samp = n_ta
              /\ uart' = IF uart_fd >= 0 THEN uart \o TraceLinesOfLastFrame ELSE uart
        /\ (pc # "uart") => uart' = uart
        /\ (uart_fd < 0) => uart' = <<>> ]_vars

\* C19 witness: with the port open two blocks have written their traces, the
\* second one of two rows
C19_Witness ==
    /\ uart_fd >= 0 /\ pc = "poll" /\ Len(stdout) = 10
    /\ stdout[10].n_samp = 2
    /\ Len(uart) = stdout[5].n_samp + 2
    /\ uart[Len(uart)][1] = 1

\* a 32-bit word from its 4 bytes in memory order; words from 2^31 on are
\* the images of negative values
word_of(b) ==
    b[1] + 256 * b[2] + 65536 * b[3]
        + 16777216 * (IF b[4] >= 128 THEN b[4] - 256 ELSE b[4])

\* a reader of the documented layout: type byte, n_samp, n_ch, then
\* n_samp * n_ch floats, row after row
parse_frame(bytes) ==
    LET n_samp == word_of(SubSeq(bytes, 2, 5))
        nch == word_of(SubSeq(bytes, 6, 9))
    IN [frame_type |-> bytes[1], n_samp |-> n_samp, n_ch |-> nch,
        matrix |-> [t \in 0..(n_samp - 1) |-> [c \in 0..(nch - 1) |->
                      word_of(SubSeq(bytes, 10 + 4 * (t * nch + c),
                                     13 + 4 * (t * nch + c)))]]]

\* channels per row of each frame type
ChannelsOfType(ft) == IF ft = FT_STAGE3_8CH THEN 8 ELSE 4

\* the buffer a frame type is written from
BufferOfType(ft) ==
    CASE ft = FT_STAGE3_8CH -> ta_out
      [] ft = FT_STAGE5_4CH -> S5_out
      [] ft = FT_STAGE7_Y2 -> Y2_out
      [] ft = FT_STAGE8_Y3 -> Y3_out
      [] ft = FT_STAGE9_YT4 -> YT_out

\* C20: every frame written is 1 + 8 + n_samp*n_ch*4 bytes: the type byte,
\* n_samp and n_ch as 32-bit words, then n_samp*n_ch floats row by row, with
\* n_ch = 8 for type 1 and 4 for types 2..5 and n_samp = n_out > 0; a reader
\* of this layout recovers the matrix the frame was written from; and the
\* five frames of a block carry the same n_samp.
C20_FrameLayoutRoundTrip ==
    [][ /\ (stdout' # stdout) =>
              \E f \in {stdout'[Len(stdout')]} :
              \E bytes \in {fwrite_frame(f)} :
              LET g == parse_frame(bytes)
                  buf == BufferOfType(f.frame_type)
              IN /\ Len(bytes) = 1 + 8 + f.n_samp * f.n_ch * 4
                 /\ \A i \in 1..Len(bytes) : bytes[i] \in 0..255
                 /\ g.frame_type = f.frame_type
                 /\ g.n_samp = n_ta /\ n_ta > 0
                 /\ g.n_ch = ChannelsOfType(g.frame_type)
                 /\ \A t \in 0..(n_ta - 1) : \A c \in 0..(g.n_ch - 1) :
                        g.matrix[t][c] = buf[t * g.n_ch + c]
        /\ (pc = "uart") =>
              \A i \in 0..4 : stdout[Len(stdout) - i].n_samp = n_ta ]_vars

\* C20 witness: a Stage3 frame of two rows with a negative and a positive
\* value has been written
C20_Witness ==
    /\ pc = "stage59" /\ n_ta = 2 /\ stdout # <<>>
    /\ stdout[Len(stdout)].frame_type = FT_STAGE3_8CH
    /\ \E i, j \in 1..16 : /\ stdout[Len(stdout)].payload[i] < 0
                             /\ stdout[Len(stdout)].payload[j] > 0

\* the window of output i: clamped to the signal
WindowLo(i, W) == IF i - W \div 2 < 0 THEN 0 ELSE i - W \div 2

WindowHi(i, len, W) ==
    IF i + W - 1 - W \div 2 > len - 1 THEN len - 1 ELSE i + W - 1 - W \div 2

\* the mean of in[WindowLo..WindowHi], summed sample by sample
WindowMean(in, len, W, i) ==
    RoundDiv(SumTo(in, WindowLo(i, W), WindowHi(i, len, W) + 1),
             WindowHi(i, len, W) - WindowLo(i, W) + 1)

C22_YtFromY3 ==
    pc = "uart" =>
        \E L \in {Len(stdout)} :
        \E f7 \in {stdout[L - 2]}, f8 \in {stdout[L - 1]}, f9 \in {stdout[L]} :
            /\ f7.frame_type = FT_STAGE7_Y2 /\ f8.frame_type = FT_STAGE8_Y3
            /\ f9.frame_type = FT_STAGE9_YT4
            /\ h_fblk[L - 2] = h_fblk[L] /\ h_fblk[L - 1] = h_fblk[L]
            /\ f7.n_samp = f9.n_samp /\ f8.n_samp = f9.n_samp
            /\ \A i \in 1..(f9.n_samp * 4) :
                  /\ f9.payload[i] = P.E * f8.payload[i] + P.F
                  /\ f8.payload[i] =
                        PolyValue(P.y3_coeffs, P.y3_coeffs_len, f7.payload[i])

\* a block written under y3_coeffs = 1,-1 whose y3 differs from its y2
C22_Witness ==
    /\ pc = "uart"
    /\ P.y3_coeffs_len = 2 /\ P.y3_coeffs[0] = 1 /\ P.y3_coeffs[1] = -1
    /\ stdout[Len(stdout)].payload # stdout[Len(stdout) - 2].payload
    /\ \E i \in 1..4 : stdout[Len(stdout)].payload[i] # 0

\* a block written under E = 3, F = 1
C22_WitnessGain ==
    /\ pc = "uart" /\ P.E = 3 /\ P.F = 1
    /\ \E i \in 1..4 : stdout[Len(stdout)].payload[i] > 1

\* channel c of every input row received so far, as one signal
RawStream(c) == [i \in 0..(Len(h_raw) - 1) |-> h_raw[i + 1][c]]

\* the low-pass filter run once over the whole stream of channel c, from
\* the zero state
WholeStreamLpf(c) ==
    sos_df2t_inplace(Stored(RawStream(c)), Len(h_raw), Zeros(n_sections * 2))

\* C23: after every block, the z1, z2 of each section of channel c are those
\* of one filter run over the concatenation of all blocks of channel c, and
\* (the channel smoother being the identity) so are the output samples: the
\* state persists across blocks, and channel c depends on no other channel.
C23_LpfStatePersists ==
    pc = "emit3" =>
        \A c \in 0..(n_ch - 1) :
            \E w \in {WholeStreamLpf(c)} :
                /\ \A k \in 0..(n_sections * 2 - 1) :
                       S.lpf_state[c * (n_sections * 2) + k] = w.state[k]
                /\ argv.movavg_ch <= 1 =>
                       \A i \in 1..Len(h_rows) : h_rows[i][c] = w.x[i - 1]

\* two blocks of two samples or more filtered with the smoother off, ending
\* in a nonzero filter state that differs between channels 0 and 1
C23_Witness ==
    /\ pc = "emit3" /\ Len(h_nta) = 2 /\ block_samples >= 2
    /\ argv.movavg_ch <= 1
    /\ S.lpf_state[0] # 0 /\ S.lpf_state[0] # S.lpf_state[n_sections * 2]

\* C24 (as claimed): when teardown has run, every resource acquired at
\* startup (every work buffer, the channel-smoothing output included, the
\* filter state, the carry tail, the ADC buffer, the channel tables, the
\* context and the serial handle) has been released, and none twice (stated
\* for the runs in which every startup allocation succeeds).
C24_TeardownReleasesAll ==
    (pc = "exited" /\ exit_status = 0 /\ alloc_fail = "none") =>
        /\ \A r \in Acquired : \E j \in 1..Len(released) : released[j] = r
        /\ \A j, k \in 1..Len(released) : released[j] = released[k] => j = k

\* what teardown does release: everything acquired except the smoothing
\* output, nothing that was not acquired, and nothing twice
C24_TeardownReleasesRest ==
    (pc = "exited" /\ exit_status = 0) =>
        /\ \A r \in Acquired \ {"ma_ch_out"} :
              \E j \in 1..Len(released) : released[j] = r
        /\ \A j \in 1..Len(released) : released[j] \in Acquired \ {"ma_ch_out"}
        /\ \A j, k \in 1..Len(released) : released[j] = released[k] => j = k

\* C25 (as claimed): with W > 1 the channel smoother carries its window
\* across blocks: the smoothed samples of the blocks written so far are
\* those of one smoothing pass over the concatenated filtered stream.
C25_SmootherContinuesAcrossBlocks ==
    (pc = "emit3" /\ argv.movavg_ch > 1 /\ alloc_fail = "none") =>
        \A c \in 0..(n_ch - 1) :
            \E whole \in {Stored(moving_average_f32(Stored(WholeStreamLpf(c).x),
                                                    Len(h_raw), argv.movavg_ch))} :
                \A i \in 1..Len(h_rows) : h_rows[i][c] = whole[i - 1]

\* what the smoother does: every block is smoothed on its own, with its
\* windows clamped to the block
SmoothedPerBlock ==
    (pc = "emit3" /\ argv.movavg_ch > 1) =>
        \A c \in 0..(n_ch - 1), b \in 0..(Len(h_nta) - 1) :
            \E x \in {Stored(WholeStreamLpf(c).x)} :
            \E blk \in {Stored(moving_average_f32(
                             Stored([i \in 0..(block_samples - 1) |->
                                        x[b * block_samples + i]]),
                             block_samples, argv.movavg_ch))} :
                \A i \in 0..(block_samples - 1) :
                    h_rows[b * block_samples + i + 1][c] = blk[i]

\* every line that has arrived: those read so far, then those still queued
Arrived == h_lines \o stdin

\* C26: a line leaves the command queue only in the poll at the head of an
\* iteration, before the refill; a poll that finds lines queued reads exactly
\* the oldest one and applies it, and no other step changes Params; so k
\* queued lines are applied in arrival order, one per iteration.
C26_OneLinePerIteration ==
    [][ /\ (pc = "poll" /\ pc' # pc /\ stdin # <<>>) =>
              /\ pc' = "refill"
              /\ stdin' = Tail(stdin)
              /\ h_lines' = Append(h_lines, Head(stdin))
              /\ P' = ApplyLine(P, Head(stdin))
        /\ (stdin' # stdin /\ ~(pc = "poll" /\ pc' # pc)) =>
              (pc' = pc /\ P' = P /\ h_lines' = h_lines
               /\ \E line \in RepeatLines : stdin' = Append(stdin, line))
        /\ (P' # P \/ h_lines' # h_lines) => (pc = "poll" /\ stdin # <<>>)
        /\ \/ Arrived' = Arrived
           \/ \E line \in RepeatLines : Arrived' = Append(Arrived, line) ]_vars

\* three lines were queued at the first poll: it has read one, two wait
C26_Witness ==
    /\ pc = "refill" /\ Len(h_nta) = 0
    /\ Len(h_lines) = 1 /\ Len(stdin) = 2
    /\ P = ApplyLine(InitParams(argv), h_lines[1])

\* three queued lines have been read by three consecutive polls
C26_WitnessDrained ==
    /\ pc = "refill" /\ Len(h_nta) = 2 /\ Len(h_lines) = 3 /\ stdin = <<>>

\* cells of a flat buffer
Cells(buf) == Cardinality(DOMAIN buf)

BlocksPerRow == (decim + block_samples - 1) \div block_samples

\* frames on stdout that belong to block k
FramesOfBlock(k) == Cardinality({i \in 1..Len(stdout) : h_fblk[i] = k})

\* in any BlocksPerRow consecutive blocks one has n_out > 0, and a block with
\* n_out = 0 has added all its rows to carry_tail (their values are compared
\* when the device has exactly n_ch input channels)
RowsKeepComing ==
    Started =>
        /\ \A k \in 1..(Len(h_nta) - BlocksPerRow + 1) :
               \E j \in k..(k + BlocksPerRow - 1) : h_nta[j] > 0
        /\ (h_nta # <<>> /\ h_nta[Len(h_nta)] = 0) =>
               /\ S.avg_tail_len >= block_samples
               /\ n_in = n_ch => TailIsHistorySuffix

\* C28 (as claimed): while refills succeed, in any ceil(decim / block_samples)
\* consecutive blocks at least one block has n_out > 0, every block with
\* n_out > 0 that is no longer being written has its five frames on stdout,
\* and a block with n_out = 0 leaves all its rows in carry_tail.
C28_FramesKeepComing ==
    /\ RowsKeepComing
    /\ \A k \in 1..Len(h_nta) :
          (h_nta[k] > 0 /\ ~(k = Len(h_nta) /\ InFlight)) => FramesOfBlock(k) = 5

C30_ScratchMatchesCap ==
    \A j \in 1..Len(ma_calls) :
        \E m \in {ma_calls[j]} :
            (m.N > 1 /\ m.cap0 >= m.len + 1) =>
                (m.psum0 = m.cap0 /\ m.status # "fault")

\* the scratchpad is consistent with cap as long as no allocation has failed
ScratchMatchesCapUnlessFailed ==
    (\A j \in 1..Len(ma_calls) : ma_calls[j].status # "nomem") =>
        /\ psum = cap
        /\ \A j \in 1..Len(ma_calls) : ma_calls[j].status # "fault"

====
